---- MODULE Spec2Model ----
(***************************************************************************)
(* Statistical evaluation and selective-calibration core of                *)
(* eda-to-model-scaffold: src/evaluation/stats.py (midranks, DeLong AUC     *)
(* variance and two-model test) and src/calibration/conformal.py            *)
(* (selective_threshold, selective_predict).                                 *)
(*                                                                         *)
(* Numbers are exact rationals [n, d] in lowest terms with d > 0; the       *)
(* record NonFinite stands for every IEEE value that is not a finite number *)
(* (nan, inf, -inf), which is what numpy yields for x/0 and for the mean or  *)
(* the sample covariance of too few observations.  Scores and probabilities *)
(* are multiples of one tenth: the integer t stands for t/10.               *)
(***************************************************************************)
EXTENDS Integers, Sequences, FiniteSets

\* Longest label/score vector drawn by Init (the two worked examples of the
\* specification, of length 5 and 6, are initial states of their own).
MaxLen == 3

\* Probabilities (in tenths) drawn for each instance.
ProbVals == {0, 4, 5, 6}

\* Target error rates alpha = <<numerator, denominator>>.
Alphas == {<<1, 100>>, <<1, 10>>, <<3, 10>>, <<1, 2>>}

(***************************************************************************)
(* Rational arithmetic with numpy's non-finite results.                    *)
(***************************************************************************)
Abs(a) == IF a < 0 THEN -a ELSE a

RECURSIVE GCD(_, _)
GCD(a, b) == IF b = 0 THEN a ELSE GCD(b, a % b)

NonFinite == [n |-> 0, d |-> 0]

IsFinite(r) == r.d # 0

\* n/d in lowest terms; a zero denominator is numpy's nan/inf.
Rat(n, d) ==
    IF d = 0 THEN NonFinite
    ELSE LET g == GCD(Abs(n), Abs(d))
             s == IF d < 0 THEN -1 ELSE 1
         IN  [n |-> (s * n) \div g, d |-> (s * d) \div g]

IntR(i) == [n |-> i, d |-> 1]

RAdd(a, b) ==
    IF IsFinite(a) /\ IsFinite(b) THEN Rat(a.n * b.d + b.n * a.d, a.d * b.d)
    ELSE NonFinite

RSub(a, b) ==
    IF IsFinite(a) /\ IsFinite(b) THEN Rat(a.n * b.d - b.n * a.d, a.d * b.d)
    ELSE NonFinite

RMul(a, b) ==
    IF IsFinite(a) /\ IsFinite(b) THEN Rat(a.n * b.n, a.d * b.d)
    ELSE NonFinite

RDiv(a, b) ==
    IF IsFinite(a) /\ IsFinite(b) THEN Rat(a.n * b.d, a.d * b.n)
    ELSE NonFinite

\* IEEE comparisons: any comparison with a non-finite nan is false.
RLe(a, b) == IsFinite(a) /\ IsFinite(b) /\ a.n * b.d <= b.n * a.d

RLt(a, b) == IsFinite(a) /\ IsFinite(b) /\ a.n * b.d < b.n * a.d

RECURSIVE SumSeq(_)
SumSeq(s) == IF s = <<>> THEN 0 ELSE Head(s) + SumSeq(Tail(s))

RECURSIVE RSum(_)
RSum(s) == IF s = <<>> THEN IntR(0) ELSE RAdd(Head(s), RSum(Tail(s)))

\* ndarray.mean(): the mean of an empty array is nan.
Mean(s) == RDiv(RSum(s), IntR(Len(s)))

\* x[order] for an index array `order` (1-based here).
Take(x, order) == [p \in 1..Len(order) |-> x[order[p]]]

(***************************************************************************)
(* np.argsort                                                              *)
(***************************************************************************)
\* Every index order that np.argsort may return for the keys `key`
\* (ascending): the default kind is not stable, so equal keys come in any
\* order.
RECURSIVE ArgSortFrom(_, _)
ArgSortFrom(key, rest) ==
    IF rest = {} THEN {<<>>}
    ELSE UNION { { <<i>> \o t : t \in ArgSortFrom(key, rest \ {i}) } :
                 i \in { j \in rest : \A l \in rest : key[j] <= key[l] } }

ArgSort(key) == ArgSortFrom(key, DOMAIN key)

Neg(x) == [p \in DOMAIN x |-> -x[p]]

(***************************************************************************)
(* src/evaluation/stats.py                                                 *)
(***************************************************************************)
\* Variant of RunEnd that ends every run after one element, ties or not.
RunEndSingle(Z, i, j) == i + 1

\* The inner while of _compute_midrank: the end j (0-based, exclusive) of the
\* run of values equal to Z[i] that starts at i.
RECURSIVE RunEnd(_, _, _)
RunEnd(Z, i, j) ==
    IF j < Len(Z) /\ Z[j + 1] = Z[i + 1] THEN RunEnd(Z, i, j + 1) ELSE j

\* Variant of MidrankScan that assigns 0.5 * (i + j) + 1 to the run [i, j).
RECURSIVE MidrankScanShifted(_, _, _)
MidrankScanShifted(Z, i, T) ==
    IF i < Len(Z)
    THEN LET j == RunEnd(Z, i, i)
             v == RAdd(RMul(Rat(1, 2), IntR(i + j)), IntR(1))
         IN  MidrankScanShifted(Z, j,
                 [p \in 1..Len(Z) |-> IF i < p /\ p <= j THEN v ELSE T[p]])
    ELSE T

\* The outer while of _compute_midrank from 0-based position i on:
\* T[i:j] = 0.5 * (i + j - 1) + 1 for each run [i, j).
RECURSIVE MidrankScan(_, _, _)
MidrankScan(Z, i, T) ==
    IF i < Len(Z)
    THEN LET j == RunEnd(Z, i, i)
             v == RAdd(RMul(Rat(1, 2), IntR(i + j - 1)), IntR(1))
         IN  MidrankScan(Z, j,
                 [p \in 1..Len(Z) |-> IF i < p /\ p <= j THEN v ELSE T[p]])
    ELSE T

\* _compute_midrank(x), with J the order np.argsort(x) returned.
compute_midrank(x, J) ==
    LET N == Len(x)
        Z == Take(x, J)
        T == MidrankScan(Z, 0, [p \in 1..N |-> IntR(0)])
    IN  [q \in 1..N |-> T[CHOOSE p \in 1..N : J[p] = q]]

\* np.cov of one row of observations (ddof = 1): the sample variance, nan
\* when there are fewer than two observations.
Cov(v) ==
    LET L  == Len(v)
        mu == Mean(v)
        sq == [p \in 1..L |-> RMul(RSub(v[p], mu), RSub(v[p], mu))]
    IN  IF L <= 1 THEN NonFinite ELSE RDiv(RSum(sq), IntR(L - 1))

\* Number of dimensions of what np.cov returns for k rows: cov ends with
\* c.squeeze(), so the 1 x 1 matrix of a single row comes back 0-dimensional.
CovNdim(k) == IF k = 1 THEN 0 ELSE 2

\* AUC of one row as line 52 computes it from the mean midranks.
AucOfRow(tx_pos, tx_neg, m, n) ==
    RAdd(RMul(RDiv(RSub(Mean(tx_pos), Mean(tx_neg)), IntR(m * n)), IntR(m * n)),
         Rat(1, 2))

\* _fast_delong for the single row (k = 1) delong_roc_variance passes:
\* the first m columns are taken as the positive examples.
fast_delong(row, label_1_count, J) ==
    LET m  == label_1_count
        n  == Len(row) - m
        positive_examples == SubSeq(row, 1, m)
        negative_examples == SubSeq(row, m + 1, Len(row))
        all_scores == positive_examples \o negative_examples
        tx     == compute_midrank(all_scores, J)
        tx_pos == SubSeq(tx, 1, m)
        tx_neg == SubSeq(tx, m + 1, Len(tx))
        v01 == [p \in 1..m |->
                   RDiv(RSub(tx_pos[p], Rat(m + 1, 2)), IntR(n))]
        v10 == [p \in 1..n |->
                   RDiv(RSub(tx_neg[p], Rat(n + 1, 2)), IntR(m))]
        sx == Cov(v01)
        sy == Cov(v10)
    IN  [aucs |-> AucOfRow(tx_pos, tx_neg, m, n),
         v01 |-> v01,
         v10 |-> v10,
         delongcov |-> RAdd(RDiv(sx, IntR(m)), RDiv(sy, IntR(n))),
         ndim |-> CovNdim(1)]

\* What delong_roc_variance hands to _fast_delong: the scores sorted by
\* order = np.argsort(-y_scores[0]) and the sum of the labels in that order,
\* for every order argsort may return.  y_true[order] raises IndexError when
\* order holds an index past the end of y_true, i.e. when y_true is the
\* shorter array; a longer y_true is read at the indices of order only.
SortedInputs(y_true, y_scores) ==
    { IF \E p \in DOMAIN order : order[p] > Len(y_true)
      THEN [row |-> Take(y_scores, order), count |-> 0, raised |-> "IndexError"]
      ELSE [row    |-> Take(y_scores, order),
            count  |-> SumSeq(Take(y_true, order)),
            raised |-> "none"] : order \in ArgSort(Neg(y_scores)) }

\* The rest of delong_roc_variance on a sorted input:
\* `return aucs[0], delongcov[0, 0]` indexes delongcov with two indices and
\* raises IndexError unless it has two dimensions.
delong_roc_variance(sorted, J) ==
    LET fd == fast_delong(sorted.row, sorted.count, J)
    IN  IF sorted.raised # "none"
        THEN [raised |-> sorted.raised, auc |-> <<>>, var |-> <<>>, fd |-> <<>>]
        ELSE IF fd.ndim < 2
        THEN [raised |-> "IndexError", auc |-> <<>>, var |-> <<>>, fd |-> fd]
        ELSE [raised |-> "none", auc |-> <<fd.aucs>>, var |-> <<fd.delongcov>>,
              fd |-> fd]

\* z of delong_roc_test: 0.0 unless se > 0 (false for a nan se).  z is kept as
\* its sign and its square (auc_a - auc_b)^2 / (var_a + var_b); se > 0 iff the
\* summed variance is > 0.
ZStat(auc_a, var_a, auc_b, var_b) ==
    LET v    == RAdd(var_a, var_b)
        diff == RSub(auc_a, auc_b)
    IN  IF RLt(IntR(0), v)
        THEN [sign |-> IF ~IsFinite(diff) THEN 2
                       ELSE IF diff.n > 0 THEN 1
                       ELSE IF diff.n < 0 THEN -1 ELSE 0,
              sq   |-> RDiv(RMul(diff, diff), v)]
        ELSE [sign |-> 0, sq |-> IntR(0)]

\* Every result delong_roc_variance can give on (y_true, y_scores): one for
\* each order np.argsort(-y_scores[0]) and each order np.argsort(all_scores)
\* in _compute_midrank may return.
VarianceResults(y_true, y_scores) ==
    UNION { { delong_roc_variance(sorted, J) : J \in ArgSort(sorted.row) } :
            sorted \in SortedInputs(y_true, y_scores) }

\* delong_roc_test, given the results a and b of its two
\* delong_roc_variance calls: an exception of either call propagates;
\* p = 2 * (1 - cdf(|z|)) is 1.0 exactly when z = 0.
delong_roc_test(a, b) ==
    IF a.raised # "none"
    THEN [raised |-> a.raised, z |-> <<>>, p_is_one |-> <<>>,
          auc_a |-> <<>>, auc_b |-> <<>>]
    ELSE IF b.raised # "none"
    THEN [raised |-> b.raised, z |-> <<>>, p_is_one |-> <<>>,
          auc_a |-> <<>>, auc_b |-> <<>>]
    ELSE LET z == ZStat(a.auc[1], a.var[1], b.auc[1], b.var[1])
         IN  [raised |-> "none", z |-> <<z>>,
              p_is_one |-> <<z.sign = 0>>,
              auc_a |-> a.auc, auc_b |-> b.auc]

\* The Mann-Whitney statistic of the labelled scores, over a common
\* denominator 2 * m * n: twice the pairs (positive, negative) with the
\* positive score higher, plus the tied pairs.
MannWhitney(y_true, y_scores) ==
    LET P == {i \in DOMAIN y_true : y_true[i] = 1}
        Q == {i \in DOMAIN y_true : y_true[i] = 0}
        gt == Cardinality({pq \in P \X Q : y_scores[pq[1]] > y_scores[pq[2]]})
        eq == Cardinality({pq \in P \X Q : y_scores[pq[1]] = y_scores[pq[2]]})
    IN  Rat(2 * gt + eq, 2 * Cardinality(P) * Cardinality(Q))

(***************************************************************************)
(* src/calibration/conformal.py                                            *)
(***************************************************************************)
\* The probability t/10.
Prob(t) == Rat(t, 10)

\* np.maximum(y_proba, 1 - y_proba), in tenths.
PMax(y_proba) ==
    [i \in DOMAIN y_proba |->
        IF y_proba[i] >= 10 - y_proba[i] THEN y_proba[i] ELSE 10 - y_proba[i]]

\* (y_proba >= 0.5).astype(int)
YHat(y_proba) == [i \in DOMAIN y_proba |-> IF 2 * y_proba[i] >= 10 THEN 1 ELSE 0]

\* correct = (y_hat_sorted == y_true_sorted).astype(int)
Correct(y_true, y_proba, order) ==
    LET y_hat_sorted  == Take(YHat(y_proba), order)
        y_true_sorted == Take(y_true, order)
    IN  [p \in 1..Len(order) |-> IF y_hat_sorted[p] = y_true_sorted[p] THEN 1 ELSE 0]

\* err_rate = np.cumsum(1 - correct) / np.arange(1, len(correct) + 1)
ErrRate(correct) ==
    [p \in 1..Len(correct) |->
        Rat(SumSeq([q \in 1..p |-> 1 - correct[q]]), p)]

\* Variant of ValidIx with the comparison turned round (err_rate >= alpha).
ValidIxGe(err_rate, alpha) ==
    {p \in 1..Len(err_rate) : RLe(Rat(alpha[1], alpha[2]), err_rate[p])}

\* valid_ix = np.where(err_rate <= alpha)[0], as 1-based prefix lengths.
ValidIx(err_rate, alpha) ==
    {p \in 1..Len(err_rate) : RLe(err_rate[p], Rat(alpha[1], alpha[2]))}

\* Variant of LastValid that takes valid_ix[0], the shortest valid prefix.
FirstValid(valid_ix) == CHOOSE k \in valid_ix : \A j \in valid_ix : k <= j

\* k = valid_ix[-1]: the last (largest) valid index.
LastValid(valid_ix) == CHOOSE k \in valid_ix : \A j \in valid_ix : j <= k

\* tau when no prefix is valid.
NoPrefixTau == IntR(1)

\* Variant of EmpErr that reads err_rate[k] before testing valid_ix: k is
\* unbound when valid_ix is empty.
EmpErrEager(err_rate, valid_ix) ==
    IF valid_ix = {}
    THEN [raised |-> "UnboundLocalError", value |-> <<>>]
    ELSE [raised |-> "none", value |-> <<err_rate[LastValid(valid_ix)]>>]

\* `float(err_rate[k]) if len(valid_ix) > 0 else None`: the condition is
\* evaluated first, so k, which is bound only when valid_ix is not empty, is
\* read only then.  value is <<>> for None.
EmpErr(err_rate, valid_ix) ==
    IF valid_ix # {}
    THEN [raised |-> "none", value |-> <<err_rate[LastValid(valid_ix)]>>]
    ELSE [raised |-> "none", value |-> <<>>]

\* selective_threshold for 1-d (binary) y_proba, with `order` the order
\* np.argsort(-p_max) returned.  tau and coverage are <<>> when the call
\* raised instead of returning: y_true[order] raises IndexError when y_true
\* is shorter than y_proba, and reads a longer y_true at the indices of
\* order only.
selective_threshold(y_true, y_proba, alpha, order) ==
    LET p_sorted == Take(PMax(y_proba), order)
        correct  == Correct(y_true, y_proba, order)
        err_rate == ErrRate(correct)
        valid_ix == ValidIx(err_rate, alpha)
        tau      == IF valid_ix = {} THEN NoPrefixTau
                    ELSE Prob(p_sorted[LastValid(valid_ix)])
        coverage == IF valid_ix = {} THEN IntR(0)
                    ELSE Rat(LastValid(valid_ix), Len(correct))
        emp_err  == EmpErr(err_rate, valid_ix)
    IN  IF Len(y_true) < Len(y_proba)
        THEN [alpha |-> alpha, raised |-> "IndexError", tau |-> <<>>,
              coverage |-> <<>>, emp_err |-> <<>>]
        ELSE IF emp_err.raised # "none"
        THEN [alpha |-> alpha, raised |-> emp_err.raised, tau |-> <<>>,
              coverage |-> <<>>, emp_err |-> <<>>]
        ELSE [alpha |-> alpha, raised |-> "none", tau |-> <<tau>>,
              coverage |-> <<coverage>>, emp_err |-> emp_err.value]

\* Variant of selective_predict that abstains when p_max <= tau.
selective_predict_le(y_proba, tau) ==
    LET p_max   == PMax(y_proba)
        pred    == YHat(y_proba)
        abstain == [i \in DOMAIN y_proba |-> RLe(Prob(p_max[i]), tau)]
    IN  [pred    |-> [i \in DOMAIN y_proba |-> IF abstain[i] THEN -1 ELSE pred[i]],
         abstain |-> abstain]

\* selective_predict for 1-d (binary) y_proba: -1 marks abstention.
selective_predict(y_proba, tau) ==
    LET p_max   == PMax(y_proba)
        pred    == YHat(y_proba)
        abstain == [i \in DOMAIN y_proba |-> RLt(Prob(p_max[i]), tau)]
    IN  [pred    |-> [i \in DOMAIN y_proba |-> IF abstain[i] THEN -1 ELSE pred[i]],
         abstain |-> abstain]

\* The greatest entry of a row: y_proba.max(axis=1).
RowMax(row) == CHOOSE v \in {row[c] : c \in DOMAIN row} :
                   \A c \in DOMAIN row : row[c] <= v

\* y_proba.argmax(axis=1): the first class (0-based) that attains the maximum.
ArgMax(row) ==
    (CHOOSE c \in DOMAIN row :
        /\ row[c] = RowMax(row)
        /\ \A e \in DOMAIN row : row[e] = RowMax(row) => c <= e) - 1

\* selective_predict for 2-d (multi-class) y_proba.
selective_predict_2d(y_proba, tau) ==
    LET abstain == [i \in DOMAIN y_proba |-> RLt(Prob(RowMax(y_proba[i])), tau)]
    IN  [pred    |-> [i \in DOMAIN y_proba |->
                         IF abstain[i] THEN -1 ELSE ArgMax(y_proba[i])],
         abstain |-> abstain]

(***************************************************************************)
(* The calls a client makes on one evaluation set.                         *)
(***************************************************************************)
VARIABLES
    pc,            \* which calls have been made
    y_true,        \* the label vector
    y_proba,       \* the score / probability vector (tenths), also y_scores_a
    sort_order,    \* what np.argsort(-p_max) returned for this y_proba
    y_scores_b,    \* <<the second model's scores>> once delong_roc_test ran
    variance_ret,  \* <<result of delong_roc_variance>>
    test_ret,      \* <<result of delong_roc_test>>
    cal,           \* <<result of the latest selective_threshold call>>
    prev_cal,      \* <<result of the selective_threshold call before it>>
    predicted,     \* <<result of selective_predict>>
    ndim,          \* y_proba.ndim: 1 (binary) or 2 (one row of class
                   \* probabilities per instance)
    tau_in,        \* <<the tau handed to selective_predict>>
    midrank_ret    \* <<result of _compute_midrank(y_proba)>>

vars == <<pc, y_true, y_proba, sort_order, y_scores_b, variance_ret, test_ret,
          cal, prev_cal, predicted, ndim, tau_in, midrank_ret>>

\* The label and score vectors of equal length 0..MaxLen.
Inputs ==
    UNION { [1..len -> {0, 1}] \X [1..len -> ProbVals] : len \in 0..MaxLen }

\* The worked examples of the specification: the calibration set of the
\* monotonicity property and the perfectly separated end-to-end scores.
Examples ==
    { << <<1, 1, 0, 1, 0>>, <<9, 8, 3, 6, 4>> >>,
      << <<1, 0, 1, 0, 1, 0>>, <<9, 1, 8, 2, 7, 3>> >> }

\* Rows of class probabilities (tenths) of a three-class model: a certain
\* row, rows whose maximum is below 0.5, and a row with two maximal classes.
RowVals == {<<10, 0, 0>>, <<4, 4, 2>>, <<2, 3, 5>>, <<0, 5, 5>>}

\* Multi-class inputs: up to MaxLen rows, with labels of class 0.
Inputs2D ==
    UNION { {[i \in 1..len |-> 0]} \X [1..len -> RowVals] : len \in 0..MaxLen }

\* Everything but the inputs, before any call.
NoCallYet ==
    /\ pc = "start"
    /\ sort_order = <<>>
    /\ y_scores_b = <<>>
    /\ variance_ret = <<>>
    /\ test_ret = <<>>
    /\ cal = <<>>
    /\ prev_cal = <<>>
    /\ predicted = <<>>
    /\ tau_in = <<>>
    /\ midrank_ret = <<>>

Init ==
    /\ \/ /\ ndim = 1
          /\ \E io \in Inputs \cup Examples :
                /\ y_true = io[1]
                /\ y_proba = io[2]
       \/ /\ ndim = 2
          /\ \E io \in Inputs2D :
                /\ y_true = io[1]
                /\ y_proba = io[2]
    /\ NoCallYet

\* delong_roc_variance(y_true, y_proba)
DelongRocVariance ==
    /\ pc = "start"
    /\ ndim = 1
    /\ \E r \in VarianceResults(y_true, y_proba) : variance_ret' = <<r>>
    /\ pc' = "variance_done"
    /\ UNCHANGED <<y_true, y_proba, sort_order, y_scores_b, test_ret, cal,
                   prev_cal, predicted, ndim, tau_in, midrank_ret>>

\* The second model's scores tried against y_proba: the same scores, the
\* scores in reverse instance order, and (up to MaxLen instances)
\* uninformative constant scores.
ScoresB(a) ==
    { a, [i \in DOMAIN a |-> a[Len(a) + 1 - i]] }
        \cup (IF Len(a) <= MaxLen THEN { [i \in DOMAIN a |-> 5] } ELSE {})

\* delong_roc_test(y_true, y_proba, b)
DelongRocTest ==
    /\ pc = "start"
    /\ ndim = 1
    /\ \E b \in ScoresB(y_proba) :
          /\ y_scores_b' = <<b>>
          /\ \E ra \in VarianceResults(y_true, y_proba),
                rb \in VarianceResults(y_true, b) :
                test_ret' = <<delong_roc_test(ra, rb)>>
    /\ pc' = "test_done"
    /\ UNCHANGED <<y_true, y_proba, sort_order, variance_ret, cal, prev_cal,
                   predicted, ndim, tau_in, midrank_ret>>

\* selective_threshold(y_true, y_proba, alpha): a first call, and a second
\* call on the same calibration set with another target.  np.argsort is a
\* function of its input: the second call sorts as the first did.
SelectiveThreshold ==
    /\ pc \in {"start", "calibrated"}
    /\ ndim = 1
    /\ \E order \in ArgSort(Neg(PMax(y_proba))), alpha \in Alphas :
          /\ pc = "calibrated" => order = sort_order
          /\ sort_order' = order
          /\ cal' = <<selective_threshold(y_true, y_proba, alpha, order)>>
    /\ prev_cal' = cal
    /\ pc' = IF pc = "start" THEN "calibrated" ELSE "recalibrated"
    /\ UNCHANGED <<y_true, y_proba, y_scores_b, variance_ret, test_ret,
                   predicted, ndim, tau_in, midrank_ret>>

\* selective_predict(y_proba, tau) with the tau just calibrated.
SelectivePredict ==
    /\ pc = "calibrated"
    /\ cal[1].raised = "none"
    /\ tau_in' = cal[1].tau
    /\ predicted' = <<selective_predict(y_proba, cal[1].tau[1])>>
    /\ pc' = "predicted"
    /\ UNCHANGED <<y_true, y_proba, sort_order, y_scores_b, variance_ret,
                   test_ret, cal, prev_cal, ndim, midrank_ret>>

\* The thresholds handed to selective_predict directly: 0.0, 0.5, 0.6, 1.0.
TauVals == {IntR(0), Rat(1, 2), Rat(3, 5), IntR(1)}

\* selective_predict(y_proba, tau) on binary or multi-class probabilities,
\* with a tau of the caller's.
SelectivePredictAt ==
    /\ pc = "start"
    /\ \E tau \in TauVals :
          /\ tau_in' = <<tau>>
          /\ predicted' = IF ndim = 1
                          THEN <<selective_predict(y_proba, tau)>>
                          ELSE <<selective_predict_2d(y_proba, tau)>>
    /\ pc' = "predicted_at"
    /\ UNCHANGED <<y_true, y_proba, sort_order, y_scores_b, variance_ret,
                   test_ret, cal, prev_cal, ndim, midrank_ret>>

\* _compute_midrank(y_proba)
ComputeMidrank ==
    /\ pc = "start"
    /\ ndim = 1
    /\ \E J \in ArgSort(y_proba) :
          midrank_ret' = <<compute_midrank(y_proba, J)>>
    /\ pc' = "midrank_done"
    /\ UNCHANGED <<y_true, y_proba, sort_order, y_scores_b, variance_ret,
                   test_ret, cal, prev_cal, predicted, ndim, tau_in>>

Next ==
    \/ DelongRocVariance
    \/ DelongRocTest
    \/ SelectiveThreshold
    \/ SelectivePredict
    \/ SelectivePredictAt
    \/ ComputeMidrank

Spec == Init /\ [][Next]_vars

\* Label and probability vectors of different lengths, each up to MaxLen.
MismatchedInputs ==
    UNION { UNION { [1..lt -> {0, 1}] \X [1..lp -> ProbVals] :
                    lp \in (0..MaxLen) \ {lt} } : lt \in 0..MaxLen }

InitMismatch ==
    /\ ndim = 1
    /\ \E io \in MismatchedInputs :
          /\ y_true = io[1]
          /\ y_proba = io[2]
    /\ NoCallYet

NextMismatch ==
    \/ DelongRocVariance
    \/ DelongRocTest
    \/ SelectiveThreshold
    \/ SelectivePredict

\* The same calls on arrays of different lengths.
SpecMismatch == InitMismatch /\ [][NextMismatch]_vars

(***************************************************************************)
(* Properties                                                              *)
(***************************************************************************)
Positives == {i \in DOMAIN y_true : y_true[i] = 1}

Negatives == {i \in DOMAIN y_true : y_true[i] = 0}

\* m >= 1 and n >= 1.
HasBoth == Positives # {} /\ Negatives # {}

\* Every positive example scores strictly above every negative example.
Separated(scores) ==
    \A i \in Positives, j \in Negatives : scores[i] > scores[j]

AllTied(scores) == \A i, j \in DOMAIN scores : scores[i] = scores[j]

VarianceCalled == pc = "variance_done"

\* C1: on labels with a positive and a negative, the AUC of
\* delong_roc_variance is the Mann-Whitney value of the examples the labels
\* mark positive against those they mark negative.
C1_AucIsMannWhitney ==
    (VarianceCalled /\ HasBoth) =>
        variance_ret[1].fd.aucs = MannWhitney(y_true, y_proba)

\* C2: for perfectly separated classes the AUC of delong_roc_variance is 1.
C2_SeparatedAucIsOne ==
    (VarianceCalled /\ HasBoth /\ Separated(y_proba)) =>
        variance_ret[1].fd.aucs = IntR(1)

\* C3: on labels with a positive and a negative, every AUC value produced
\* lies in [0, 1].
C3_AucInUnitInterval ==
    (VarianceCalled /\ HasBoth) =>
        /\ RLe(IntR(0), variance_ret[1].fd.aucs)
        /\ RLe(variance_ret[1].fd.aucs, IntR(1))

\* C4: when all scores are equal, delong_roc_variance returns AUC = 0.5.
C4_TiedAucReturnedHalf ==
    (VarianceCalled /\ HasBoth /\ AllTied(y_proba)) =>
        /\ variance_ret[1].raised = "none"
        /\ variance_ret[1].auc = <<Rat(1, 2)>>

\* C5: for perfectly separated classes the variance of delong_roc_variance
\* is 0: the components v01 are all equal and the components v10 are all
\* equal.
C5_SeparatedVarianceZero ==
    (VarianceCalled /\ HasBoth /\ Separated(y_proba)) =>
        LET fd == variance_ret[1].fd
        IN  /\ fd.delongcov = IntR(0)
            /\ \A p, q \in DOMAIN fd.v01 : fd.v01[p] = fd.v01[q]
            /\ \A p, q \in DOMAIN fd.v10 : fd.v10[p] = fd.v10[q]

\* C6: delong_roc_test with the same scores for both models returns z = 0,
\* p = 1.0 and equal AUCs.
C6_SelfTestReturnsZeroZ ==
    (pc = "test_done" /\ HasBoth /\ y_scores_b = <<y_proba>>) =>
        /\ test_ret[1].raised = "none"
        /\ test_ret[1].z = <<[sign |-> 0, sq |-> IntR(0)]>>
        /\ test_ret[1].p_is_one = <<TRUE>>
        /\ test_ret[1].auc_a = test_ret[1].auc_b

Calibrated == cal # <<>>

\* Wrong predictions among the first k instances of the confidence order.
PrefixErrors(k) ==
    Cardinality({q \in 1..k :
        (2 * y_proba[sort_order[q]] >= 10) # (y_true[sort_order[q]] = 1)})

\* The prefix of length k has error rate <= alpha.
Qualifies(k, alpha) == PrefixErrors(k) * alpha[2] <= alpha[1] * k

QualifyingPrefixes(alpha) == {k \in 1..Len(y_proba) : Qualifies(k, alpha)}

Confidence(i) ==
    IF y_proba[i] >= 10 - y_proba[i] THEN y_proba[i] ELSE 10 - y_proba[i]

\* C7: if some prefix of the confidence order has error rate <= alpha and k
\* is the longest such prefix, then tau is the confidence of the k-th
\* instance, coverage = k / N, emp_err is that prefix's error rate, which is
\* <= alpha, and no longer prefix qualifies.
C7_LongestQualifyingPrefix ==
    Calibrated =>
        \A k \in QualifyingPrefixes(cal[1].alpha) :
            (\A j \in QualifyingPrefixes(cal[1].alpha) : j <= k) =>
                /\ cal[1].raised = "none"
                /\ cal[1].tau = <<Rat(Confidence(sort_order[k]), 10)>>
                /\ cal[1].coverage = <<Rat(k, Len(y_proba))>>
                /\ cal[1].emp_err = <<Rat(PrefixErrors(k), k)>>
                /\ RLe(cal[1].emp_err[1], Rat(cal[1].alpha[1], cal[1].alpha[2]))
                /\ \A j \in (k + 1)..Len(y_proba) : ~Qualifies(j, cal[1].alpha)

\* C7 witness: the accepted prefix is proper, and a shorter prefix does not
\* qualify.
C7_Witness ==
    /\ Calibrated
    /\ \E k \in QualifyingPrefixes(cal[1].alpha) :
          /\ cal[1].coverage = <<Rat(k, Len(y_proba))>>
          /\ k < Len(y_proba)
          /\ \E j \in 1..(k - 1) : ~Qualifies(j, cal[1].alpha)

AlphaLe(a, b) == a[1] * b[2] <= b[1] * a[2]

\* tau and coverage of result r2 are no laxer than those of r1.
NoLaxer(r1, r2) ==
    /\ r1.raised = "none" /\ r2.raised = "none"
    /\ RLe(r2.tau[1], r1.tau[1])
    /\ RLe(r1.coverage[1], r2.coverage[1])

\* C8: on one calibration set, alpha1 <= alpha2 gives tau(alpha1) >=
\* tau(alpha2) and coverage(alpha1) <= coverage(alpha2).
C8_TauMonotoneInAlpha ==
    (pc = "recalibrated") =>
        /\ AlphaLe(cal[1].alpha, prev_cal[1].alpha) => NoLaxer(cal[1], prev_cal[1])
        /\ AlphaLe(prev_cal[1].alpha, cal[1].alpha) => NoLaxer(prev_cal[1], cal[1])

\* C8 witness: the second call lowered alpha, and tau rose and coverage fell
\* strictly, both calls having accepted a prefix.
C8_Witness ==
    /\ pc = "recalibrated"
    /\ AlphaLe(cal[1].alpha, prev_cal[1].alpha)
    /\ cal[1].emp_err # <<>>
    /\ RLt(prev_cal[1].tau[1], cal[1].tau[1])
    /\ RLt(cal[1].coverage[1], prev_cal[1].coverage[1])

Accepted == {i \in DOMAIN y_proba : ~predicted[1].abstain[i]}

Wrong == {i \in Accepted : predicted[1].pred[i] # y_true[i]}

\* C9: with the calibrated tau applied to the calibration probabilities, the
\* error rate among the non-abstained instances is <= alpha and their
\* fraction is the reported coverage.
C9_CalibrationGuarantee ==
    (pc = "predicted") =>
        /\ Cardinality(Wrong) * cal[1].alpha[2]
              <= cal[1].alpha[1] * Cardinality(Accepted)
        /\ Cardinality(Accepted) * cal[1].coverage[1].d
              = cal[1].coverage[1].n * Len(y_proba)

\* C10: when no prefix of the confidence order has error rate <= alpha (an
\* empty calibration set included), selective_threshold returns tau = 1.0,
\* coverage = 0.0 and emp_err = None, without raising.
C10_NoQualifyingPrefix ==
    (Calibrated /\ QualifyingPrefixes(cal[1].alpha) = {}) =>
        /\ cal[1].raised = "none"
        /\ cal[1].tau = <<IntR(1)>>
        /\ cal[1].coverage = <<IntR(0)>>
        /\ cal[1].emp_err = <<>>

\* C10 witness: a calibration set of several instances none of whose
\* prefixes qualifies.
C10_Witness ==
    /\ Calibrated
    /\ Len(y_proba) >= 2
    /\ QualifyingPrefixes(cal[1].alpha) = {}
    /\ cal[1].tau = <<IntR(1)>>

PredictDone == pc \in {"predicted", "predicted_at"}

\* C11: selective_predict with tau = 1.0 abstains on every instance: every
\* flag is true and every prediction is the marker -1.
C11_TauOneAbstainsAll ==
    (PredictDone /\ tau_in = <<IntR(1)>>) =>
        \A i \in DOMAIN y_proba :
            /\ predicted[1].abstain[i]
            /\ predicted[1].pred[i] = -1

\* The classes of the model: 0 and 1 for binary probabilities, one per column
\* otherwise.
ClassLabels ==
    IF ndim = 1 THEN {0, 1}
    ELSE UNION { {c - 1 : c \in DOMAIN y_proba[i]} : i \in DOMAIN y_proba }

\* Confidence of instance i in tenths: max(p, 1 - p), or the greatest class
\* probability.
ConfidenceOf(i) ==
    IF ndim = 1
    THEN (IF y_proba[i] >= 5 THEN y_proba[i] ELSE 10 - y_proba[i])
    ELSE CHOOSE v \in 0..10 :
            /\ \E c \in DOMAIN y_proba[i] : y_proba[i][c] = v
            /\ \A c \in DOMAIN y_proba[i] : y_proba[i][c] <= v

\* The decision without abstention: 1 iff p >= 0.5, or the first class of
\* greatest probability.
PlainDecision(i) ==
    IF ndim = 1
    THEN (IF y_proba[i] >= 5 THEN 1 ELSE 0)
    ELSE CHOOSE k \in ClassLabels :
            /\ y_proba[i][k + 1] = ConfidenceOf(i)
            /\ \A e \in ClassLabels : e < k => y_proba[i][e + 1] < ConfidenceOf(i)

\* C12: selective_predict abstains on an instance (flag true, prediction -1)
\* exactly when its confidence is below tau, and otherwise leaves the plain
\* decision unchanged; -1 is no class label; with tau = 0.0 nothing abstains.
C12_AbstainIffBelowTau ==
    PredictDone =>
        /\ DOMAIN predicted[1].pred = DOMAIN y_proba
        /\ DOMAIN predicted[1].abstain = DOMAIN y_proba
        /\ -1 \notin ClassLabels
        /\ \A i \in DOMAIN y_proba :
              /\ predicted[1].abstain[i]
                    <=> (ConfidenceOf(i) * tau_in[1].d < tau_in[1].n * 10)
              /\ predicted[1].abstain[i] => predicted[1].pred[i] = -1
              /\ ~predicted[1].abstain[i] =>
                    predicted[1].pred[i] = PlainDecision(i)
              /\ tau_in[1] = IntR(0) => ~predicted[1].abstain[i]

\* C12 witness: multi-class probabilities on which one instance abstains,
\* another of confidence exactly tau does not, and the class predicted is
\* not class 0.
C12_Witness ==
    /\ pc = "predicted_at"
    /\ ndim = 2
    /\ \E i, j \in DOMAIN y_proba :
          /\ predicted[1].abstain[i]
          /\ ~predicted[1].abstain[j]
          /\ ConfidenceOf(j) * tau_in[1].d = tau_in[1].n * 10
          /\ predicted[1].pred[j] > 0

\* Elements of y_proba strictly smaller than, and equal to, element q.
Smaller(q) == {r \in DOMAIN y_proba : y_proba[r] < y_proba[q]}

EqualTo(q) == {r \in DOMAIN y_proba : y_proba[r] = y_proba[q]}

\* C13: _compute_midrank returns, in the original index order, for each
\* element the average 1-based sorted position of the elements equal to it:
\* (number of smaller elements) + (number of equal elements + 1) / 2; so
\* N = 0 gives an empty array and N = 1 gives [1].
C13_MidrankIsAveragePosition ==
    (pc = "midrank_done") =>
        /\ Len(midrank_ret[1]) = Len(y_proba)
        /\ \A q \in DOMAIN y_proba :
              midrank_ret[1][q] =
                  Rat(2 * Cardinality(Smaller(q)) + Cardinality(EqualTo(q)) + 1, 2)
        /\ Len(y_proba) = 0 => midrank_ret[1] = <<>>
        /\ Len(y_proba) = 1 => midrank_ret[1] = <<IntR(1)>>
        /\ (\A q \in DOMAIN y_proba : EqualTo(q) = {q}) =>
              {midrank_ret[1][q] : q \in DOMAIN y_proba}
                  = {IntR(k) : k \in 1..Len(y_proba)}
        /\ (\A q \in DOMAIN y_proba : EqualTo(q) = DOMAIN y_proba) =>
              \A q \in DOMAIN y_proba :
                  midrank_ret[1][q] = Rat(Len(y_proba) + 1, 2)

\* C13 witness: an unsorted array with a tied pair that is neither the
\* smallest nor all of the array.
C13_Witness ==
    /\ pc = "midrank_done"
    /\ \E q, r \in DOMAIN y_proba :
          /\ q < r
          /\ y_proba[q] = y_proba[r]
          /\ Smaller(q) # {}
          /\ midrank_ret[1][q] = midrank_ret[1][r]
    /\ \E q \in DOMAIN y_proba : q > 1 /\ y_proba[q] < y_proba[1]

\* C14: the midranks of an array of length N sum to N(N+1)/2.
C14_MidrankSum ==
    (pc = "midrank_done") =>
        RSum(midrank_ret[1]) = Rat(Len(y_proba) * (Len(y_proba) + 1), 2)

\* C14 witness: midranks of an array with ties, some of them fractional.
C14_Witness ==
    /\ pc = "midrank_done"
    /\ Len(y_proba) >= 3
    /\ \E q \in DOMAIN y_proba : midrank_ret[1][q].d = 2
    /\ \E q \in DOMAIN y_proba : midrank_ret[1][q].d = 1

\* The errors that report an invalid argument.
InvalidInputErrors == {"ValueError"}

\* C15: on labels without a positive or without a negative,
\* delong_roc_variance and delong_roc_test fail with an invalid-input error.
C15_DegenerateLabelsRejected ==
    (ndim = 1 /\ ~HasBoth) =>
        /\ VarianceCalled => variance_ret[1].raised \in InvalidInputErrors
        /\ pc = "test_done" => test_ret[1].raised \in InvalidInputErrors

\* C16: when the label array and the score array differ in length,
\* delong_roc_variance, delong_roc_test and selective_threshold fail with an
\* error and return no result.
C16_LengthMismatchRaises ==
    (Len(y_true) # Len(y_proba)) =>
        /\ variance_ret # <<>> => variance_ret[1].raised # "none"
        /\ test_ret # <<>> => test_ret[1].raised # "none"
        /\ cal # <<>> => cal[1].raised # "none"

\* The descending-confidence order that keeps equal confidences in their
\* original index order.
StableOrder ==
    CHOOSE o \in ArgSort(Neg(PMax(y_proba))) :
        \A p, q \in DOMAIN o :
            (p < q /\ PMax(y_proba)[o[p]] = PMax(y_proba)[o[q]]) => o[p] < o[q]

\* C17: the result of selective_threshold is the one the stable
\* descending-confidence order gives: it does not depend on where the sort
\* places instances of equal confidence.
C17_ResultOfStableOrder ==
    Calibrated =>
        cal[1] = selective_threshold(y_true, y_proba, cal[1].alpha, StableOrder)

\* z as the claim states it from the two AUCs and variances: 0 when the
\* summed variance is 0, else (auc_a - auc_b) / sqrt(var_a + var_b), kept as
\* its sign and its square.
ZOf(ra, rb) ==
    LET v    == RAdd(ra.fd.delongcov, rb.fd.delongcov)
        diff == RSub(ra.fd.aucs, rb.fd.aucs)
    IN  IF v = IntR(0) THEN [sign |-> 0, sq |-> IntR(0)]
        ELSE [sign |-> IF diff.n > 0 THEN 1 ELSE IF diff.n < 0 THEN -1 ELSE 0,
              sq   |-> RDiv(RMul(diff, diff), v)]

\* C18: delong_roc_test returns z = (AUC_a - AUC_b) / sqrt(var_a + var_b) when
\* the combined standard error is positive, and returns z = 0, p = 1.0
\* without raising when it is zero.
C18_ZOfStandardError ==
    (pc = "test_done" /\ HasBoth) =>
        /\ test_ret[1].raised = "none"
        /\ \E ra \in VarianceResults(y_true, y_proba),
              rb \in VarianceResults(y_true, y_scores_b[1]) :
              /\ IsFinite(RAdd(ra.fd.delongcov, rb.fd.delongcov)) =>
                    test_ret[1].z = <<ZOf(ra, rb)>>
              /\ RAdd(ra.fd.delongcov, rb.fd.delongcov) = IntR(0) =>
                    test_ret[1].p_is_one = <<TRUE>>

====
